---- MODULE Spec2Model ----
(***************************************************************************)
(* The network reconciler of cloud/aws/services/ec2: ReconcileNetwork      *)
(* (network.go), reconcileVPC / createVPC / describeVPC (vpc.go) and       *)
(* reconcileRouteTables / createRouteTableWithRoutes / associateRouteTable *)
(* (routetables.go), run against an EC2 provider whose calls may fail.     *)
(*                                                                         *)
(* One action is one blocking provider call together with the local code   *)
(* that follows it up to the next provider call or the return.             *)
(* Identifiers are naturals; 0 stands for the empty string / nil pointer.  *)
(***************************************************************************)
EXTENDS Integers, Sequences, FiniteSets, TLC

\* ------------------------------------------------------------------ bounds
MaxPasses == 2
MaxSubnets == 2

\* --------------------------------------------------------------- constants
defaultVpcCidr == "10.0.0.0/16"
DefaultRouteCidr == "0.0.0.0/0"
OtherCidr == "10.1.0.0/16"
FoundCidr == "10.9.0.0/16"

\* The reconciliation passes that may run; Main is the single sequential caller.
Procs == {1, 2}

VARIABLES
    vpcs,            \* provider: set of [id, cidr, owned, made (by the reconciler)]
    rtbs,            \* provider: sequence of route tables, id = index; forSubnet,
                     \* asked and assocCalls record what the reconciler did with it
    desired,         \* the desired network the caller holds
    net,             \* net[p]: the *v1alpha1.Network the pass works on
    input,           \* input[p]: net[p] as it was when the pass started
    pc,              \* pc[p]: position of the pass
    err,             \* err[p]: error returned by the pass ("nil" for none)
    loc,             \* loc[p]: locals (out, subnetRouteMap, idx, routes, ri, rt)
    steps,           \* steps[p]: pipeline steps started in this pass, in order
    log,             \* log[p]: provider calls issued in this pass, in order
    lookup,          \* lookup[p]: last describeVPC query and its outcome
    pass,            \* pass[p]: number of passes started
    prev             \* prev[p]: input and, if it succeeded, output of the previous pass

vars == <<vpcs, rtbs, desired, net, input, pc, err, loc, steps, log, lookup, pass, prev>>

\* ----------------------------------------------------------------- helpers
Min(S) == CHOOSE x \in S : \A y \in S : x <= y
Max(S) == CHOOSE x \in S : \A y \in S : x >= y
Main == Min(Procs)

\* ------------------------------------------------------------ the provider
\* Mutant: the tag filter is applied to a lookup by identifier too.
DescribeVpcs_TagAlways(vs, id) ==
    IF id = 0 THEN {v \in vs : v.owned} ELSE {v \in vs : v.id = id /\ v.owned}

\* Mutant: the tag query also returns the VPCs that carry no tag yet.
DescribeVpcs_SeesUntagged(vs, id) ==
    IF id = 0 THEN vs ELSE {v \in vs : v.id = id}

\* EC2.DescribeVpcs: by VpcIds when an id is given, by the cluster's tag filter otherwise.
DescribeVpcs(vs, id) ==
    IF id = 0 THEN {v \in vs : v.owned} ELSE {v \in vs : v.id = id}

\* The provider hands out an identifier that names no virtual network anyone holds.
NewVpcId(vs, d) == 1 + Max({v.id : v \in vs} \cup {d.VPC.ID} \cup {0})

\* EC2.DescribeRouteTables with the vpc-id filter: the ids of the VPC's tables.
describeVpcRouteTables(rts, vpcID) ==
    {t \in DOMAIN rts : rts[t].vpc = vpcID}

\* Mutant: only the associations of tables that hold a route enter the map.
describeVpcRouteTablesBySubnet_NeedsRoutes(rts, vpcID) ==
    LET ts == {t \in describeVpcRouteTables(rts, vpcID) : rts[t].routes # << >>}
        subs == UNION {rts[t].assoc : t \in ts}
    IN [s \in subs |-> Max({t \in ts : s \in rts[t].assoc})]

\* The map subnet id -> route table; a later table overwrites an earlier one.
describeVpcRouteTablesBySubnet(rts, vpcID) ==
    LET ts == describeVpcRouteTables(rts, vpcID)
        subs == UNION {rts[t].assoc : t \in ts}
    IN [s \in subs |-> Max({t \in ts : s \in rts[t].assoc})]

\* ---------------------------------------------------------- pure functions
\* Mutant: several matches are resolved by taking one of them.
describeVPC_PicksFirst(vs, id, ok) ==
    LET out == DescribeVpcs(vs, id)
    IN IF ~ok THEN [kind |-> "Error", vpc |-> [ID |-> 0, CidrBlock |-> ""]]
       ELSE IF Cardinality(out) = 0
            THEN [kind |-> "NotFound", vpc |-> [ID |-> 0, CidrBlock |-> ""]]
       ELSE LET v == CHOOSE x \in out : TRUE
            IN [kind |-> "Found", vpc |-> [ID |-> v.id, CidrBlock |-> v.cidr]]

\* Mutant: an explicit id that matches nothing falls back to the tag query.
describeVPC_FallsBackToTags(vs, id, ok) ==
    LET byId == DescribeVpcs(vs, id)
        out == IF byId = {} THEN DescribeVpcs(vs, 0) ELSE byId
    IN IF ~ok THEN [kind |-> "Error", vpc |-> [ID |-> 0, CidrBlock |-> ""]]
       ELSE IF Cardinality(out) = 0
            THEN [kind |-> "NotFound", vpc |-> [ID |-> 0, CidrBlock |-> ""]]
       ELSE IF Cardinality(out) > 1
            THEN [kind |-> "Conflict", vpc |-> [ID |-> 0, CidrBlock |-> ""]]
       ELSE LET v == CHOOSE x \in out : TRUE
            IN [kind |-> "Found", vpc |-> [ID |-> v.id, CidrBlock |-> v.cidr]]

\* describeVPC: the outcome of the lookup, given how the DescribeVpcs call went.
describeVPC(vs, id, ok) ==
    LET out == DescribeVpcs(vs, id)
    IN IF ~ok THEN [kind |-> "Error", vpc |-> [ID |-> 0, CidrBlock |-> ""]]
       ELSE IF Cardinality(out) = 0
            THEN [kind |-> "NotFound", vpc |-> [ID |-> 0, CidrBlock |-> ""]]
       ELSE IF Cardinality(out) > 1
            THEN [kind |-> "Conflict", vpc |-> [ID |-> 0, CidrBlock |-> ""]]
       ELSE LET v == CHOOSE x \in out : TRUE
            IN [kind |-> "Found", vpc |-> [ID |-> v.id, CidrBlock |-> v.cidr]]

\* Mutant: the public default route is given the NatGatewayId field.
getDefaultPublicRoutes_ViaNat(internetGatewayId) ==
    << [dest |-> DefaultRouteCidr, gw |-> 0, nat |-> internetGatewayId] >>

getDefaultPublicRoutes(internetGatewayId) ==
    << [dest |-> DefaultRouteCidr, gw |-> internetGatewayId, nat |-> 0] >>

\* Mutant: the private default route is given the GatewayId field.
getDefaultPrivateRoutes_ViaGateway(natGatewayId) ==
    << [dest |-> DefaultRouteCidr, gw |-> natGatewayId, nat |-> 0] >>

getDefaultPrivateRoutes(natGatewayId) ==
    << [dest |-> DefaultRouteCidr, gw |-> 0, nat |-> natGatewayId] >>

\* The NAT gateway of the first public subnet in the private subnet's zone.
getNatGatewayForSubnet(subnets, sn) ==
    LET c == {j \in DOMAIN subnets :
                 /\ subnets[j].IsPublic
                 /\ subnets[j].NatGatewayID # 0
                 /\ subnets[j].AvailabilityZone = sn.AvailabilityZone}
    IN IF sn.IsPublic \/ c = {} THEN [ok |-> FALSE, id |-> 0]
       ELSE [ok |-> TRUE, id |-> subnets[Min(c)].NatGatewayID]

\* The gateways the gateway reconcilers resolve.
IgwOf(vpcID) == 100 * vpcID
NatOf(subnetID) == 10 * subnetID

\* Mutant: the subnets found in the map are not skipped.
Advance_NoSkip(n, m, i) ==
    LET todo == i..Len(n.Subnets)
    IN IF todo = {}
       THEN [kind |-> "return", err |-> "nil", idx |-> 0, routes |-> <<>>]
       ELSE LET j == Min(todo)
                sn == n.Subnets[j]
                g == getNatGatewayForSubnet(n.Subnets, sn)
            IN IF sn.IsPublic
               THEN IF n.InternetGatewayID = 0
                    THEN [kind |-> "return", err |-> "IgwNil", idx |-> j, routes |-> <<>>]
                    ELSE [kind |-> "create", err |-> "nil", idx |-> j,
                          routes |-> getDefaultPublicRoutes(n.InternetGatewayID)]
               ELSE IF ~g.ok
                    THEN [kind |-> "return", err |-> "NoNat", idx |-> j, routes |-> <<>>]
                    ELSE [kind |-> "create", err |-> "nil", idx |-> j,
                          routes |-> getDefaultPrivateRoutes(g.id)]

\* Mutant: the public route is built without the check of the internet gateway id.
Advance_IgwUnchecked(n, m, i) ==
    LET todo == {j \in i..Len(n.Subnets) : n.Subnets[j].ID \notin DOMAIN m}
    IN IF todo = {}
       THEN [kind |-> "return", err |-> "nil", idx |-> 0, routes |-> <<>>]
       ELSE LET j == Min(todo)
                sn == n.Subnets[j]
                g == getNatGatewayForSubnet(n.Subnets, sn)
            IN IF sn.IsPublic
               THEN [kind |-> "create", err |-> "nil", idx |-> j,
                     routes |-> getDefaultPublicRoutes(n.InternetGatewayID)]
               ELSE IF ~g.ok
                    THEN [kind |-> "return", err |-> "NoNat", idx |-> j, routes |-> <<>>]
                    ELSE [kind |-> "create", err |-> "nil", idx |-> j,
                          routes |-> getDefaultPrivateRoutes(g.id)]

\* reconcileRouteTables, lines 32-56: from subnet i on, skip the subnets the map
\* holds and choose the routes of the first subnet it does not hold.
Advance(n, m, i) ==
    LET todo == {j \in i..Len(n.Subnets) : n.Subnets[j].ID \notin DOMAIN m}
    IN IF todo = {}
       THEN [kind |-> "return", err |-> "nil", idx |-> 0, routes |-> <<>>]
       ELSE LET j == Min(todo)
                sn == n.Subnets[j]
                g == getNatGatewayForSubnet(n.Subnets, sn)
            IN IF sn.IsPublic
               THEN IF n.InternetGatewayID = 0
                    THEN [kind |-> "return", err |-> "IgwNil", idx |-> j, routes |-> <<>>]
                    ELSE [kind |-> "create", err |-> "nil", idx |-> j,
                          routes |-> getDefaultPublicRoutes(n.InternetGatewayID)]
               ELSE IF ~g.ok
                    THEN [kind |-> "return", err |-> "NoNat", idx |-> j, routes |-> <<>>]
                    ELSE [kind |-> "create", err |-> "nil", idx |-> j,
                          routes |-> getDefaultPrivateRoutes(g.id)]

\* ------------------------------------------------------------------- Init
SubnetOf(i, pub, z) ==
    [ID |-> i, IsPublic |-> pub, AvailabilityZone |-> z, RouteTableID |-> 0,
     NatGatewayID |-> 0]

\* Public subnets lie in zone "a"; a private subnet lies in either zone.
SubnetKinds == {<<TRUE, "a">>, <<FALSE, "a">>, <<FALSE, "b">>}

SubnetLists ==
    UNION {{[i \in 1..n |-> SubnetOf(i, k[i][1], k[i][2])] :
               k \in [1..n -> SubnetKinds]} : n \in 0..MaxSubnets}

Vpc(i, own) == [id |-> i, cidr |-> FoundCidr, owned |-> own, made |-> FALSE]

\* A route table of virtual network 1 that the reconciler did not create
\* (forSubnet = 0), already associated with subnet 1 and holding no route.
Foreign ==
    << [vpc |-> 1, routes |-> << >>, assoc |-> {1}, forSubnet |-> 0, asked |-> << >>,
        assocCalls |-> 0] >>

\* What the provider holds at the start (virtual networks, route tables), with the
\* VPC the caller desires (explicit id, address block).
Scenarios ==
    { [vpcs |-> {}, rtbs |-> << >>, ID |-> 0, CidrBlock |-> ""],
      [vpcs |-> {}, rtbs |-> << >>, ID |-> 0, CidrBlock |-> OtherCidr],
      [vpcs |-> {}, rtbs |-> << >>, ID |-> 1, CidrBlock |-> ""],
      [vpcs |-> {Vpc(1, TRUE)}, rtbs |-> Foreign, ID |-> 0, CidrBlock |-> OtherCidr],
      [vpcs |-> {Vpc(1, FALSE)}, rtbs |-> Foreign, ID |-> 1, CidrBlock |-> ""],
      [vpcs |-> {Vpc(1, TRUE), Vpc(2, TRUE)}, rtbs |-> << >>, ID |-> 0, CidrBlock |-> ""],
      [vpcs |-> {Vpc(1, TRUE), Vpc(2, TRUE)}, rtbs |-> << >>, ID |-> 1,
       CidrBlock |-> OtherCidr] }

NoLocals ==
    [out |-> [id |-> 0, cidr |-> ""], subnetRouteMap |-> << >>, idx |-> 0,
     routes |-> << >>, ri |-> 0, rt |-> 0]

NoLookup == [id |-> 0, ok |-> FALSE, matches |-> {}, kind |-> "none"]

NoPrev == [valid |-> FALSE, ok |-> FALSE, input |-> desired, output |-> desired]

Init ==
    /\ \E sc \in Scenarios, s \in SubnetLists :
          /\ vpcs = sc.vpcs
          /\ rtbs = sc.rtbs
          /\ desired = [VPC |-> [ID |-> sc.ID, CidrBlock |-> sc.CidrBlock],
                        Subnets |-> s, InternetGatewayID |-> 0]
    /\ net = [p \in Procs |-> desired]
    /\ input = [p \in Procs |-> desired]
    /\ pc = [p \in Procs |-> "idle"]
    /\ err = [p \in Procs |-> "nil"]
    /\ loc = [p \in Procs |-> NoLocals]
    /\ steps = [p \in Procs |-> << >>]
    /\ log = [p \in Procs |-> << >>]
    /\ lookup = [p \in Procs |-> NoLookup]
    /\ pass = [p \in Procs |-> 0]
    /\ prev = [p \in Procs |-> NoPrev]

\* ---------------------------------------------------------------- actions
Call(op, ok, sn, id) == [op |-> op, ok |-> ok, sn |-> sn, id |-> id]

\* The caller invokes ReconcileNetwork: on the network object the previous pass
\* left behind (fresh = FALSE) or on a new copy of the desired network.
StartPass(p, fresh) ==
    /\ pc[p] \in {"idle", "done"}
    /\ pass[p] < MaxPasses
    /\ LET n == IF fresh THEN desired ELSE net[p]
       IN /\ net' = [net EXCEPT ![p] = n]
          /\ input' = [input EXCEPT ![p] = n]
    /\ prev' = [prev EXCEPT ![p] =
                  IF pc[p] = "done"
                  THEN [valid |-> TRUE, ok |-> err[p] = "nil", input |-> input[p],
                        output |-> IF err[p] = "nil" THEN net[p] ELSE desired]
                  ELSE NoPrev]
    /\ pass' = [pass EXCEPT ![p] = @ + 1]
    /\ pc' = [pc EXCEPT ![p] = "vpc_describe"]
    /\ err' = [err EXCEPT ![p] = "nil"]
    /\ loc' = [loc EXCEPT ![p] = NoLocals]
    /\ steps' = [steps EXCEPT ![p] = << >>]
    /\ log' = [log EXCEPT ![p] = << >>]
    /\ lookup' = [lookup EXCEPT ![p] = NoLookup]
    /\ UNCHANGED <<vpcs, rtbs, desired>>

\* Mutant: on adoption a non-empty desired address block is kept.
ReconcileVPC_KeepsCidr(p, ok) ==
    /\ pc[p] = "vpc_describe"
    /\ LET id == net[p].VPC.ID
           r == describeVPC(vpcs, id, ok)
       IN /\ lookup' = [lookup EXCEPT ![p] =
                          [id |-> id, ok |-> ok,
                           matches |-> IF ok THEN DescribeVpcs(vpcs, id) ELSE {},
                           kind |-> r.kind]]
          /\ log' = [log EXCEPT ![p] = Append(@, Call("DescribeVpcs", ok, 0, id))]
          /\ CASE r.kind = "NotFound" ->
                    /\ net' = [net EXCEPT ![p].VPC.CidrBlock =
                                 IF @ = "" THEN defaultVpcCidr ELSE @]
                    /\ pc' = [pc EXCEPT ![p] = "vpc_create"]
                    /\ err' = err
               [] r.kind = "Found" ->
                    /\ net' = [net EXCEPT ![p].VPC.ID = r.vpc.ID,
                                          ![p].VPC.CidrBlock =
                                              IF @ = "" THEN r.vpc.CidrBlock ELSE @]
                    /\ pc' = [pc EXCEPT ![p] = "subnets"]
                    /\ err' = err
               [] OTHER ->
                    /\ net' = net
                    /\ pc' = [pc EXCEPT ![p] = "done"]
                    /\ err' = [err EXCEPT ![p] = r.kind]
    /\ steps' = [steps EXCEPT ![p] = Append(@, "VPC")]
    /\ UNCHANGED <<vpcs, rtbs, desired, input, loc, pass, prev>>

\* reconcileVPC up to the CreateVpc call: describeVPC, then adopt, fail, or enter
\* createVPC, which defaults the address block in place.
ReconcileVPC(p, ok) ==
    /\ pc[p] = "vpc_describe"
    /\ LET id == net[p].VPC.ID
           r == describeVPC(vpcs, id, ok)
       IN /\ lookup' = [lookup EXCEPT ![p] =
                          [id |-> id, ok |-> ok,
                           matches |-> IF ok THEN DescribeVpcs(vpcs, id) ELSE {},
                           kind |-> r.kind]]
          /\ log' = [log EXCEPT ![p] = Append(@, Call("DescribeVpcs", ok, 0, id))]
          /\ CASE r.kind = "NotFound" ->
                    /\ net' = [net EXCEPT ![p].VPC.CidrBlock =
                                 IF @ = "" THEN defaultVpcCidr ELSE @]
                    /\ pc' = [pc EXCEPT ![p] = "vpc_create"]
                    /\ err' = err
               [] r.kind = "Found" ->
                    /\ net' = [net EXCEPT ![p].VPC = r.vpc]
                    /\ pc' = [pc EXCEPT ![p] = "subnets"]
                    /\ err' = err
               [] OTHER ->
                    /\ net' = net
                    /\ pc' = [pc EXCEPT ![p] = "done"]
                    /\ err' = [err EXCEPT ![p] = r.kind]
    /\ steps' = [steps EXCEPT ![p] = Append(@, "VPC")]
    /\ UNCHANGED <<vpcs, rtbs, desired, input, loc, pass, prev>>

\* Mutant: CreateVpc is sent the address block as the caller gave it, undefaulted.
CreateVpc_NoDefault(p, ok) ==
    /\ pc[p] = "vpc_create"
    /\ LET id == NewVpcId(vpcs, desired)
           c == input[p].VPC.CidrBlock
       IN IF ok
          THEN /\ vpcs' = vpcs \cup {[id |-> id, cidr |-> c, owned |-> FALSE, made |-> TRUE]}
               /\ loc' = [loc EXCEPT ![p].out = [id |-> id, cidr |-> c]]
               /\ log' = [log EXCEPT ![p] = Append(@, Call("CreateVpc", TRUE, 0, id))]
               /\ pc' = [pc EXCEPT ![p] = "vpc_wait"]
               /\ err' = err
          ELSE /\ log' = [log EXCEPT ![p] = Append(@, Call("CreateVpc", FALSE, 0, 0))]
               /\ pc' = [pc EXCEPT ![p] = "done"]
               /\ err' = [err EXCEPT ![p] = "CreateVpc"]
               /\ UNCHANGED <<vpcs, loc>>
    /\ UNCHANGED <<rtbs, desired, net, input, steps, lookup, pass, prev>>

\* createVPC: EC2.CreateVpc.
CreateVpc(p, ok) ==
    /\ pc[p] = "vpc_create"
    /\ LET id == NewVpcId(vpcs, desired)
           c == net[p].VPC.CidrBlock
       IN IF ok
          THEN /\ vpcs' = vpcs \cup {[id |-> id, cidr |-> c, owned |-> FALSE, made |-> TRUE]}
               /\ loc' = [loc EXCEPT ![p].out = [id |-> id, cidr |-> c]]
               /\ log' = [log EXCEPT ![p] = Append(@, Call("CreateVpc", TRUE, 0, id))]
               /\ pc' = [pc EXCEPT ![p] = "vpc_wait"]
               /\ err' = err
          ELSE /\ log' = [log EXCEPT ![p] = Append(@, Call("CreateVpc", FALSE, 0, 0))]
               /\ pc' = [pc EXCEPT ![p] = "done"]
               /\ err' = [err EXCEPT ![p] = "CreateVpc"]
               /\ UNCHANGED <<vpcs, loc>>
    /\ UNCHANGED <<rtbs, desired, net, input, steps, lookup, pass, prev>>

\* Mutant: createVPC goes on to tag the VPC although the wait failed.
WaitUntilVpcAvailable_Unchecked(p, ok) ==
    /\ pc[p] = "vpc_wait"
    /\ log' = [log EXCEPT ![p] =
                 Append(@, Call("WaitUntilVpcAvailable", ok, 0, loc[p].out.id))]
    /\ pc' = [pc EXCEPT ![p] = "vpc_tag"]
    /\ err' = err
    /\ UNCHANGED <<vpcs, rtbs, desired, net, input, loc, steps, lookup, pass, prev>>

\* createVPC: EC2.WaitUntilVpcAvailable.
WaitUntilVpcAvailable(p, ok) ==
    /\ pc[p] = "vpc_wait"
    /\ log' = [log EXCEPT ![p] =
                 Append(@, Call("WaitUntilVpcAvailable", ok, 0, loc[p].out.id))]
    /\ IF ok
       THEN /\ pc' = [pc EXCEPT ![p] = "vpc_tag"]
            /\ err' = err
       ELSE /\ pc' = [pc EXCEPT ![p] = "done"]
            /\ err' = [err EXCEPT ![p] = "WaitUntilVpcAvailable"]
    /\ UNCHANGED <<vpcs, rtbs, desired, net, input, loc, steps, lookup, pass, prev>>

\* createVPC: createTags, then the return into reconcileVPC and DeepCopyInto.
CreateTags(p, ok) ==
    /\ pc[p] = "vpc_tag"
    /\ log' = [log EXCEPT ![p] = Append(@, Call("CreateTags", ok, 0, loc[p].out.id))]
    /\ IF ok
       THEN /\ vpcs' = {IF v.id = loc[p].out.id THEN [v EXCEPT !.owned = TRUE] ELSE v :
                           v \in vpcs}
            /\ net' = [net EXCEPT ![p].VPC =
                         [ID |-> loc[p].out.id, CidrBlock |-> loc[p].out.cidr]]
            /\ pc' = [pc EXCEPT ![p] = "subnets"]
            /\ err' = err
       ELSE /\ pc' = [pc EXCEPT ![p] = "done"]
            /\ err' = [err EXCEPT ![p] = "CreateTags"]
            /\ UNCHANGED <<vpcs, net>>
    /\ UNCHANGED <<rtbs, desired, input, loc, steps, lookup, pass, prev>>

\* Mutant: the error of reconcileSubnets does not end the pass.
ReconcileSubnets_Continues(p, ok) ==
    /\ pc[p] = "subnets"
    /\ steps' = [steps EXCEPT ![p] = Append(@, "Subnets")]
    /\ pc' = [pc EXCEPT ![p] = "igw"]
    /\ err' = [err EXCEPT ![p] = IF ok THEN @ ELSE "Subnets"]
    /\ UNCHANGED <<vpcs, rtbs, desired, net, input, loc, log, lookup, pass, prev>>

\* reconcileSubnets: the subnet list is already resolved (ID, IsPublic).
ReconcileSubnets(p, ok) ==
    /\ pc[p] = "subnets"
    /\ steps' = [steps EXCEPT ![p] = Append(@, "Subnets")]
    /\ IF ok
       THEN /\ pc' = [pc EXCEPT ![p] = "igw"]
            /\ err' = err
       ELSE /\ pc' = [pc EXCEPT ![p] = "done"]
            /\ err' = [err EXCEPT ![p] = "Subnets"]
    /\ UNCHANGED <<vpcs, rtbs, desired, net, input, loc, log, lookup, pass, prev>>

\* reconcileInternetGateways: resolves the VPC's internet gateway, fails, or
\* returns without having set the identifier (r = "silent").
ReconcileInternetGateways(p, r) ==
    /\ pc[p] = "igw"
    /\ steps' = [steps EXCEPT ![p] = Append(@, "InternetGateways")]
    /\ CASE r = "ok" ->
              /\ net' = [net EXCEPT ![p].InternetGatewayID = IgwOf(net[p].VPC.ID)]
              /\ pc' = [pc EXCEPT ![p] = "nat"]
              /\ err' = err
         [] r = "silent" ->
              /\ pc' = [pc EXCEPT ![p] = "nat"]
              /\ UNCHANGED <<net, err>>
         [] OTHER ->
              /\ pc' = [pc EXCEPT ![p] = "done"]
              /\ err' = [err EXCEPT ![p] = "InternetGateways"]
              /\ net' = net
    /\ UNCHANGED <<vpcs, rtbs, desired, input, loc, log, lookup, pass, prev>>

\* reconcileNatGateways: one NAT gateway per public subnet.
ReconcileNatGateways(p, ok) ==
    /\ pc[p] = "nat"
    /\ steps' = [steps EXCEPT ![p] = Append(@, "NatGateways")]
    /\ IF ok
       THEN /\ LET subs == net[p].Subnets
               IN net' = [net EXCEPT ![p].Subnets =
                            [j \in DOMAIN subs |->
                               IF subs[j].IsPublic
                               THEN [subs[j] EXCEPT !.NatGatewayID = NatOf(subs[j].ID)]
                               ELSE subs[j]]]
            /\ pc' = [pc EXCEPT ![p] = "rt_describe"]
            /\ err' = err
       ELSE /\ pc' = [pc EXCEPT ![p] = "done"]
            /\ err' = [err EXCEPT ![p] = "NatGateways"]
            /\ net' = net
    /\ UNCHANGED <<vpcs, rtbs, desired, input, loc, log, lookup, pass, prev>>

\* The loop of reconcileRouteTables from subnet i up to its next provider call
\* (CreateRouteTable) or its return.
Loop(p, i, m) ==
    LET a == Advance(net'[p], m, i)
    IN /\ loc' = [loc EXCEPT ![p].subnetRouteMap = m, ![p].idx = a.idx,
                             ![p].routes = a.routes, ![p].ri = 0, ![p].rt = 0]
       /\ IF a.kind = "create"
          THEN /\ pc' = [pc EXCEPT ![p] = "rt_create"]
               /\ err' = err
          ELSE /\ pc' = [pc EXCEPT ![p] = "done"]
               /\ err' = [err EXCEPT ![p] = a.err]

\* reconcileRouteTables: describeVpcRouteTablesBySubnet, then the loop.
DescribeRouteTables(p, ok) ==
    /\ pc[p] = "rt_describe"
    /\ steps' = [steps EXCEPT ![p] = Append(@, "RouteTables")]
    /\ log' = [log EXCEPT ![p] =
                 Append(@, Call("DescribeRouteTables", ok, 0, net[p].VPC.ID))]
    /\ net' = net
    /\ IF ok
       THEN Loop(p, 1, describeVpcRouteTablesBySubnet(rtbs, net[p].VPC.ID))
       ELSE /\ pc' = [pc EXCEPT ![p] = "done"]
            /\ err' = [err EXCEPT ![p] = "DescribeRouteTables"]
            /\ loc' = loc
    /\ UNCHANGED <<vpcs, rtbs, desired, input, lookup, pass, prev>>

\* Mutant: a table made for the subnet earlier and left unassociated is taken up
\* again instead of a new one being created.
CreateRouteTable_Reuses(p, ok) ==
    /\ pc[p] = "rt_create"
    /\ LET sn == net[p].Subnets[loc[p].idx]
           old == {t \in DOMAIN rtbs : /\ rtbs[t].vpc = net[p].VPC.ID
                                       /\ rtbs[t].forSubnet = sn.ID
                                       /\ rtbs[t].assoc = {}}
           id == IF old = {} THEN Len(rtbs) + 1 ELSE Max(old)
       IN IF ok
          THEN /\ rtbs' = IF old = {}
                          THEN Append(rtbs,
                                 [vpc |-> net[p].VPC.ID, routes |-> << >>, assoc |-> {},
                                  forSubnet |-> sn.ID, asked |-> << >>, assocCalls |-> 0])
                          ELSE [rtbs EXCEPT ![id].routes = << >>, ![id].asked = << >>]
               /\ loc' = [loc EXCEPT ![p].rt = id, ![p].ri = 1]
               /\ log' = [log EXCEPT ![p] =
                            Append(@, Call("CreateRouteTable", TRUE, sn.ID, id))]
               /\ pc' = [pc EXCEPT ![p] =
                           IF loc[p].routes = << >> THEN "rt_assoc" ELSE "rt_route"]
               /\ err' = err
          ELSE /\ log' = [log EXCEPT ![p] =
                            Append(@, Call("CreateRouteTable", FALSE, sn.ID, 0))]
               /\ pc' = [pc EXCEPT ![p] = "done"]
               /\ err' = [err EXCEPT ![p] = "CreateRouteTable"]
               /\ UNCHANGED <<rtbs, loc>>
    /\ UNCHANGED <<vpcs, desired, net, input, steps, lookup, pass, prev>>

\* Mutant: the subnet's RouteTableID is set as soon as the table is created.
CreateRouteTable_RecordsID(p, ok) ==
    /\ pc[p] = "rt_create"
    /\ LET sn == net[p].Subnets[loc[p].idx]
           id == Len(rtbs) + 1
       IN IF ok
          THEN /\ rtbs' = Append(rtbs,
                     [vpc |-> net[p].VPC.ID, routes |-> << >>, assoc |-> {},
                      forSubnet |-> sn.ID, asked |-> << >>, assocCalls |-> 0])
               /\ loc' = [loc EXCEPT ![p].rt = id, ![p].ri = 1]
               /\ net' = [net EXCEPT ![p].Subnets[loc[p].idx].RouteTableID = id]
               /\ log' = [log EXCEPT ![p] =
                            Append(@, Call("CreateRouteTable", TRUE, sn.ID, id))]
               /\ pc' = [pc EXCEPT ![p] =
                           IF loc[p].routes = << >> THEN "rt_assoc" ELSE "rt_route"]
               /\ err' = err
          ELSE /\ log' = [log EXCEPT ![p] =
                            Append(@, Call("CreateRouteTable", FALSE, sn.ID, 0))]
               /\ pc' = [pc EXCEPT ![p] = "done"]
               /\ err' = [err EXCEPT ![p] = "CreateRouteTable"]
               /\ UNCHANGED <<rtbs, loc, net>>
    /\ UNCHANGED <<vpcs, desired, input, steps, lookup, pass, prev>>

\* createRouteTableWithRoutes: EC2.CreateRouteTable.
CreateRouteTable(p, ok) ==
    /\ pc[p] = "rt_create"
    /\ LET sn == net[p].Subnets[loc[p].idx]
           id == Len(rtbs) + 1
       IN IF ok
          THEN /\ rtbs' = Append(rtbs,
                     [vpc |-> net[p].VPC.ID, routes |-> << >>, assoc |-> {},
                      forSubnet |-> sn.ID, asked |-> << >>, assocCalls |-> 0])
               /\ loc' = [loc EXCEPT ![p].rt = id, ![p].ri = 1]
               /\ log' = [log EXCEPT ![p] =
                            Append(@, Call("CreateRouteTable", TRUE, sn.ID, id))]
               /\ pc' = [pc EXCEPT ![p] =
                           IF loc[p].routes = << >> THEN "rt_assoc" ELSE "rt_route"]
               /\ err' = err
          ELSE /\ log' = [log EXCEPT ![p] =
                            Append(@, Call("CreateRouteTable", FALSE, sn.ID, 0))]
               /\ pc' = [pc EXCEPT ![p] = "done"]
               /\ err' = [err EXCEPT ![p] = "CreateRouteTable"]
               /\ UNCHANGED <<rtbs, loc>>
    /\ UNCHANGED <<vpcs, desired, net, input, steps, lookup, pass, prev>>

\* Mutant: the error of CreateRoute is not checked.
CreateRoute_Unchecked(p, ok) ==
    /\ pc[p] = "rt_route"
    /\ LET t == loc[p].rt
           r == loc[p].routes[loc[p].ri]
           sn == net[p].Subnets[loc[p].idx]
       IN /\ log' = [log EXCEPT ![p] = Append(@, Call("CreateRoute", ok, sn.ID, t))]
          /\ rtbs' = [rtbs EXCEPT ![t].routes = IF ok THEN Append(@, r) ELSE @,
                                  ![t].asked = Append(@, r)]
          /\ loc' = [loc EXCEPT ![p].ri = @ + 1]
          /\ pc' = [pc EXCEPT ![p] =
                      IF loc[p].ri + 1 > Len(loc[p].routes)
                      THEN "rt_assoc" ELSE "rt_route"]
          /\ err' = err
    /\ UNCHANGED <<vpcs, desired, net, input, steps, lookup, pass, prev>>

\* Mutant: the table is associated with the subnet although CreateRoute failed.
CreateRoute_FailsAssociated(p, ok) ==
    /\ pc[p] = "rt_route"
    /\ LET t == loc[p].rt
           r == loc[p].routes[loc[p].ri]
           sn == net[p].Subnets[loc[p].idx]
       IN /\ log' = [log EXCEPT ![p] = Append(@, Call("CreateRoute", ok, sn.ID, t))]
          /\ IF ok
             THEN /\ rtbs' = [rtbs EXCEPT ![t].routes = Append(@, r),
                                          ![t].asked = Append(@, r)]
                  /\ loc' = [loc EXCEPT ![p].ri = @ + 1]
                  /\ pc' = [pc EXCEPT ![p] =
                              IF loc[p].ri + 1 > Len(loc[p].routes)
                              THEN "rt_assoc" ELSE "rt_route"]
                  /\ err' = err
             ELSE /\ rtbs' = [rtbs EXCEPT ![t].asked = Append(@, r),
                                          ![t].assoc = @ \cup {sn.ID}]
                  /\ pc' = [pc EXCEPT ![p] = "done"]
                  /\ err' = [err EXCEPT ![p] = "CreateRoute"]
                  /\ loc' = loc
    /\ UNCHANGED <<vpcs, desired, net, input, steps, lookup, pass, prev>>

\* createRouteTableWithRoutes: one EC2.CreateRoute of the loop over routes.
CreateRoute(p, ok) ==
    /\ pc[p] = "rt_route"
    /\ LET t == loc[p].rt
           r == loc[p].routes[loc[p].ri]
           sn == net[p].Subnets[loc[p].idx]
       IN /\ log' = [log EXCEPT ![p] = Append(@, Call("CreateRoute", ok, sn.ID, t))]
          /\ IF ok
             THEN /\ rtbs' = [rtbs EXCEPT ![t].routes = Append(@, r),
                                          ![t].asked = Append(@, r)]
                  /\ loc' = [loc EXCEPT ![p].ri = @ + 1]
                  /\ pc' = [pc EXCEPT ![p] =
                              IF loc[p].ri + 1 > Len(loc[p].routes)
                              THEN "rt_assoc" ELSE "rt_route"]
                  /\ err' = err
             ELSE /\ rtbs' = [rtbs EXCEPT ![t].asked = Append(@, r)]
                  /\ pc' = [pc EXCEPT ![p] = "done"]
                  /\ err' = [err EXCEPT ![p] = "CreateRoute"]
                  /\ loc' = loc
    /\ UNCHANGED <<vpcs, desired, net, input, steps, lookup, pass, prev>>

\* Mutant: the error of AssociateRouteTable is not checked.
AssociateRouteTable_Unchecked(p, ok) ==
    /\ pc[p] = "rt_assoc"
    /\ LET t == loc[p].rt
           i == loc[p].idx
           sn == net[p].Subnets[i]
       IN /\ log' = [log EXCEPT ![p] =
                       Append(@, Call("AssociateRouteTable", ok, sn.ID, t))]
          /\ rtbs' = [rtbs EXCEPT ![t].assoc = IF ok THEN @ \cup {sn.ID} ELSE @,
                                  ![t].assocCalls = @ + 1]
          /\ net' = [net EXCEPT ![p].Subnets[i].RouteTableID = t]
          /\ Loop(p, i + 1, loc[p].subnetRouteMap)
    /\ UNCHANGED <<vpcs, desired, input, steps, lookup, pass, prev>>

\* associateRouteTable: EC2.AssociateRouteTable, then the subnet's RouteTableID is
\* set and the loop of reconcileRouteTables goes on with the next subnet.
AssociateRouteTable(p, ok) ==
    /\ pc[p] = "rt_assoc"
    /\ LET t == loc[p].rt
           i == loc[p].idx
           sn == net[p].Subnets[i]
       IN /\ log' = [log EXCEPT ![p] =
                       Append(@, Call("AssociateRouteTable", ok, sn.ID, t))]
          /\ IF ok
             THEN /\ rtbs' = [rtbs EXCEPT ![t].assoc = @ \cup {sn.ID},
                                          ![t].assocCalls = @ + 1]
                  /\ net' = [net EXCEPT ![p].Subnets[i].RouteTableID = t]
                  /\ Loop(p, i + 1, loc[p].subnetRouteMap)
             ELSE /\ rtbs' = [rtbs EXCEPT ![t].assocCalls = @ + 1]
                  /\ pc' = [pc EXCEPT ![p] = "done"]
                  /\ err' = [err EXCEPT ![p] = "AssociateRouteTable"]
                  /\ UNCHANGED <<net, loc>>
    /\ UNCHANGED <<vpcs, desired, input, steps, lookup, pass, prev>>

\* The steps of a pass under way, one per provider call.
Proceed(p) ==
    \/ \E ok \in BOOLEAN : ReconcileVPC(p, ok)
    \/ \E ok \in BOOLEAN : CreateVpc(p, ok)
    \/ \E ok \in BOOLEAN : WaitUntilVpcAvailable(p, ok)
    \/ \E ok \in BOOLEAN : CreateTags(p, ok)
    \/ \E ok \in BOOLEAN : ReconcileSubnets(p, ok)
    \/ \E r \in {"ok", "silent", "fail"} : ReconcileInternetGateways(p, r)
    \/ \E ok \in BOOLEAN : ReconcileNatGateways(p, ok)
    \/ \E ok \in BOOLEAN : DescribeRouteTables(p, ok)
    \/ \E ok \in BOOLEAN : CreateRouteTable(p, ok)
    \/ \E ok \in BOOLEAN : CreateRoute(p, ok)
    \/ \E ok \in BOOLEAN : AssociateRouteTable(p, ok)

\* One step of pass p.
Step(p) ==
    \/ \E fresh \in BOOLEAN : StartPass(p, fresh)
    \/ Proceed(p)

\* The sequential caller: one pass at a time, passes one after the other.
Next == Step(Main)

Spec == Init /\ [][Next]_vars

\* Several callers reconcile the same cluster at once: nothing in ReconcileNetwork
\* keeps the passes apart, so their provider calls interleave freely. The cluster
\* is fresh, with one public subnet.
InitRace ==
    /\ Init
    /\ vpcs = {} /\ rtbs = << >>
    /\ desired.VPC = [ID |-> 0, CidrBlock |-> ""]
    /\ Len(desired.Subnets) = 1 /\ desired.Subnets[1].IsPublic

\* The first caller runs pass after pass; the other callers run one pass each.
NextRace ==
    \E p \in Procs :
        \/ \E fresh \in BOOLEAN : (p # Main => pc[p] # "done") /\ StartPass(p, fresh)
        \/ Proceed(p)

SpecRace == InitRace /\ [][NextRace]_vars

\* ----------------------------------------------------------- vocabulary
Pipeline == <<"VPC", "Subnets", "InternetGateways", "NatGateways", "RouteTables">>

CreationOps == {"CreateVpc", "CreateTags", "CreateRouteTable", "CreateRoute",
                "AssociateRouteTable"}
DeleteOps == {"DeleteVpc", "DeleteRouteTable", "DeleteRoute", "DisassociateRouteTable"}
VpcErrors == {"Error", "Conflict", "CreateVpc", "WaitUntilVpcAvailable", "CreateTags"}
RouteTableErrors == {"DescribeRouteTables", "IgwNil", "NoNat", "CreateRouteTable",
                     "CreateRoute", "AssociateRouteTable"}

Calls(p, ops) == {k \in DOMAIN log[p] : log[p][k].op \in ops}
Succeeded(p) == pc[p] = "done" /\ err[p] = "nil"
Failed(p) == pc[p] = "done" /\ err[p] # "nil"

\* What a pass reports of the network: the VPC and every subnet's routeTableID.
Observed(n) ==
    [vpc |-> n.VPC, tables |-> [i \in DOMAIN n.Subnets |-> n.Subnets[i].RouteTableID]]

\* The number of the step at which an error arises.
StepOf(e) ==
    CASE e \in VpcErrors -> 1
      [] e = "Subnets" -> 2
      [] e = "InternetGateways" -> 3
      [] e = "NatGateways" -> 4
      [] e \in RouteTableErrors -> 5

\* The route tables created by the current pass of p, with the subnet of each.
CreatedNow(p) ==
    {<<log[p][k].id, log[p][k].sn>> :
        k \in {j \in DOMAIN log[p] : log[p][j].op = "CreateRouteTable" /\ log[p][j].ok}}

\* ------------------------------------------------------------------ C1
\* Two successful passes in succession, the second on the network object the first
\* left behind (the desired state, carrying what the first pass observed).
Rerun(p) == Succeeded(p) /\ prev[p].valid /\ prev[p].ok /\ input[p] = prev[p].output

C2_Order ==
    \A p \in Procs :
        /\ Len(steps[p]) <= Len(Pipeline)
        /\ steps[p] = SubSeq(Pipeline, 1, Len(steps[p]))
        /\ pc[p] \notin {"idle", "done"} => err[p] = "nil"
        /\ Failed(p) => Len(steps[p]) = StepOf(err[p])
        /\ Succeeded(p) => steps[p] = Pipeline
        /\ Calls(p, DeleteOps) = {}

\* C2, in every step: nothing an earlier step created is deleted from the provider.
C2_NoRollback ==
    /\ \A v \in vpcs : \E w \in vpcs' : w.id = v.id
    /\ Len(rtbs') >= Len(rtbs)
    /\ \A t \in DOMAIN rtbs : /\ rtbs'[t].vpc = rtbs[t].vpc
                              /\ rtbs[t].assoc \subseteq rtbs'[t].assoc
                              /\ Len(rtbs'[t].routes) >= Len(rtbs[t].routes)

\* C2: ReconcileNetwork runs its five steps strictly in order, returns the first
\* error at once without running a later step or retrying, never deletes what an
\* earlier step created, and succeeds only when all five steps succeeded.
Thm_C2_Pipeline == [](C2_Order) /\ [][C2_NoRollback]_vars

\* A pass that created a VPC and then failed at the NAT gateway step: the VPC stays.
Wit_C2_Pipeline ==
    /\ Failed(Main) /\ err[Main] = "NatGateways"
    /\ \E k \in Calls(Main, {"CreateVpc"}) :
          /\ log[Main][k].ok
          /\ \E v \in vpcs : v.id = log[Main][k].id

\* ------------------------------------------------------------------ C3
\* C3: whatever earlier passes did and wherever they failed, the reconciler never
\* creates a second virtual network for the cluster and never creates a second
\* route table for the same subnet.
CEx_C3_NoDuplicates ==
    /\ Cardinality({v \in vpcs : v.made}) <= 1
    /\ \A t, u \in DOMAIN rtbs :
          (/\ rtbs[t].forSubnet # 0
           /\ rtbs[t].forSubnet = rtbs[u].forSubnet
           /\ rtbs[t].vpc = rtbs[u].vpc) => t = u

\* ------------------------------------------------------------------ C4
\* C4: after a pass that returns success every subnet of the network has a non-nil
\* routeTableID in memory, whether it was associated in this pass or found already
\* associated in the provider and skipped.
CEx_C4_RouteTableIDSet ==
    \A p \in Procs :
        Succeeded(p) => \A i \in DOMAIN net[p].Subnets :
                            net[p].Subnets[i].RouteTableID # 0

\* ------------------------------------------------------------------ C5
\* C5: when reconcileRouteTables returns success, every subnet of the list is
\* associated with a route table of the virtual network in the provider, having been
\* found associated at the start of the pass or associated in it; every route table
\* created in the pass is associated with exactly the subnet it was created for; and
\* no table the reconciler created is shared by two subnets.
Thm_C5_AllAssociated ==
    \A p \in Procs :
        Succeeded(p) =>
            /\ \A i \in DOMAIN net[p].Subnets :
                  LET id == net[p].Subnets[i].ID
                  IN /\ \E t \in DOMAIN rtbs :
                           rtbs[t].vpc = net[p].VPC.ID /\ id \in rtbs[t].assoc
                     /\ \/ id \in DOMAIN loc[p].subnetRouteMap
                        \/ \E c \in CreatedNow(p) : c[2] = id
            /\ \A c \in CreatedNow(p) : rtbs[c[1]].assoc = {c[2]}
            /\ \A t \in DOMAIN rtbs :
                  rtbs[t].forSubnet # 0 => rtbs[t].assoc \subseteq {rtbs[t].forSubnet}

\* A successful pass that skipped one subnet and associated a new table with another.
Wit_C5_AllAssociated ==
    /\ Succeeded(Main)
    /\ \E i \in DOMAIN net[Main].Subnets :
          net[Main].Subnets[i].ID \in DOMAIN loc[Main].subnetRouteMap
    /\ CreatedNow(Main) # {}

\* ------------------------------------------------------------------ C6
\* The lookup of the current pass matched several networks or its call failed.
LookupRefused(p) ==
    lookup[p].kind # "none" /\ (~lookup[p].ok \/ Cardinality(lookup[p].matches) > 1)

\* C6: if the virtual-network lookup returns more than one match, or fails with an
\* error other than NotFound, the pass fails with that error (Conflict, or the error
\* of the call) having issued no call but the lookup, started no later step, picked
\* no candidate and left the desired VPC (id, address block) as it was.
Thm_C6_ConflictCreatesNothing ==
    \A p \in Procs :
        LookupRefused(p) =>
            /\ Failed(p)
            /\ err[p] = IF lookup[p].ok THEN "Conflict" ELSE "Error"
            /\ Len(log[p]) = 1 /\ log[p][1].op = "DescribeVpcs"
            /\ steps[p] = <<"VPC">>
            /\ net[p].VPC = input[p].VPC

\* The tag query matched two virtual networks.
Wit_C6_ConflictCreatesNothing ==
    /\ LookupRefused(Main) /\ lookup[Main].ok /\ lookup[Main].id = 0
    /\ Cardinality(lookup[Main].matches) = 2
    /\ pc[Main] = "done"

\* ------------------------------------------------------------------ C7
\* C7: describeVPC queries by identifier alone when the id is non-empty and by the
\* ownership tag otherwise; when the call succeeds, zero matches give NotFound, one
\* match gives that network's id and address block, more than one gives Conflict,
\* and exactly one of the three outcomes arises.
Thm_C7_Locator ==
    \A p \in Procs :
        (lookup[p].kind # "none" /\ lookup[p].ok) =>
            LET m == lookup[p].matches
                id == lookup[p].id
                k == lookup[p].kind
            IN /\ (pc[p] = "vpc_create" \/ k \in {"Found", "Conflict"}) =>
                     m = IF id # 0 THEN {v \in vpcs : v.id = id}
                                   ELSE {v \in vpcs : v.owned}
               /\ k \in {"NotFound", "Found", "Conflict"}
               /\ k = "NotFound" <=> Cardinality(m) = 0
               /\ k = "Found" <=> Cardinality(m) = 1
               /\ k = "Conflict" <=> Cardinality(m) > 1
               /\ k = "Found" =>
                     \A v \in m : net[p].VPC = [ID |-> v.id, CidrBlock |-> v.cidr]

\* A lookup by identifier found its network although two networks carry the tag.
Wit_C7_Locator ==
    /\ lookup[Main].kind = "Found" /\ lookup[Main].id # 0
    /\ Cardinality({v \in vpcs : v.owned}) = 2
    /\ net[Main].VPC.CidrBlock = FoundCidr

\* ------------------------------------------------------------------ C8
\* The route table is between its CreateRouteTable call and the end of the loop
\* that creates its routes.
Populating(t) == \E p \in Procs : pc[p] = "rt_route" /\ loc[p].rt = t

TablesFor(public) ==
    {t \in DOMAIN rtbs :
        /\ rtbs[t].forSubnet # 0
        /\ desired.Subnets[rtbs[t].forSubnet].IsPublic = public}

\* C8: a route table the reconciler creates for a public subnet is given exactly
\* one route, 0.0.0.0/0 through the network's internet gateway and through no NAT
\* gateway: one CreateRoute call is issued for it, and the table holds that route
\* and no other (no route if the call failed, that route once it is associated).
Thm_C8_PublicRoute ==
    /\ \A t \in TablesFor(TRUE) :
          LET r == rtbs[t]
          IN /\ ~Populating(t) => Len(r.asked) = 1
             /\ \A k \in DOMAIN r.asked :
                   /\ r.asked[k].dest = DefaultRouteCidr
                   /\ r.asked[k].gw # 0
                   /\ r.asked[k].nat = 0
             /\ r.routes \in {<< >>, r.asked}
             /\ (r.assocCalls > 0 \/ r.assoc # {}) => Len(r.routes) = 1
    /\ \A p \in Procs : \A c \in CreatedNow(p) :
          c[1] \in TablesFor(TRUE) =>
              \A k \in DOMAIN rtbs[c[1]].asked :
                  rtbs[c[1]].asked[k].gw = net[p].InternetGatewayID

\* A new table with its one route is associated with a public subnet.
Wit_C8_PublicRoute ==
    \E c \in CreatedNow(Main) :
        /\ c[1] \in TablesFor(TRUE)
        /\ rtbs[c[1]].assoc = {c[2]}
        /\ Len(rtbs[c[1]].routes) = 1

\* ------------------------------------------------------------------ C9
\* The NAT gateways of the public subnets in the zone of subnet number i.
NatsInZone(n, i) ==
    {n.Subnets[j].NatGatewayID : j \in {k \in DOMAIN n.Subnets :
        /\ n.Subnets[k].IsPublic
        /\ n.Subnets[k].NatGatewayID # 0
        /\ n.Subnets[k].AvailabilityZone = n.Subnets[i].AvailabilityZone}}

\* C9: a route table the reconciler creates for a private subnet is given the
\* single route 0.0.0.0/0 through a NAT gateway of the subnet's zone; and when the
\* zone has no NAT gateway the pass fails at that subnet having issued no
\* CreateRouteTable, CreateRoute or AssociateRouteTable call for it.
Thm_C9_PrivateRoute ==
    /\ \A t \in TablesFor(FALSE) :
          LET r == rtbs[t]
          IN /\ ~Populating(t) => Len(r.asked) = 1
             /\ \A k \in DOMAIN r.asked :
                   /\ r.asked[k].dest = DefaultRouteCidr
                   /\ r.asked[k].gw = 0
                   /\ r.asked[k].nat # 0
             /\ r.routes \in {<< >>, r.asked}
    /\ \A p \in Procs :
          /\ \A c \in CreatedNow(p) :
                c[1] \in TablesFor(FALSE) =>
                    \A k \in DOMAIN rtbs[c[1]].asked :
                        rtbs[c[1]].asked[k].nat \in NatsInZone(net[p], c[2])
          /\ (Failed(p) /\ err[p] = "NoNat") =>
                LET i == loc[p].idx
                IN /\ ~net[p].Subnets[i].IsPublic
                   /\ NatsInZone(net[p], i) = {}
                   /\ \A k \in Calls(p, CreationOps) :
                         log[p][k].sn # net[p].Subnets[i].ID
                   /\ \A c \in CreatedNow(p) : c[2] # net[p].Subnets[i].ID
          /\ \A i \in DOMAIN net[p].Subnets :
                (/\ Succeeded(p)
                 /\ ~net[p].Subnets[i].IsPublic
                 /\ net[p].Subnets[i].ID \notin DOMAIN loc[p].subnetRouteMap)
                    => NatsInZone(net[p], i) # {}

\* The pass failed at a private subnet without NAT gateway after it had created the
\* table of an earlier subnet.
Wit_C9_PrivateRoute ==
    /\ Failed(Main) /\ err[Main] = "NoNat"
    /\ CreatedNow(Main) # {}
    /\ \A c \in CreatedNow(Main) : c[2] # net[Main].Subnets[loc[Main].idx].ID

\* ------------------------------------------------------------------ C10
\* C10: if a CreateRoute call fails, the pass returns that error at once: the new
\* table stays in the provider with the routes created before the failing one, no
\* AssociateRouteTable is attempted for it, the subnet's routeTableID is not set,
\* and no later subnet of the list is processed.
Thm_C10_FailFast ==
    \A p \in Procs : \A k \in Calls(p, {"CreateRoute"}) :
        ~log[p][k].ok =>
            LET t == log[p][k].id
                i == loc[p].idx
            IN /\ Failed(p) /\ err[p] = "CreateRoute"
               /\ k = Len(log[p])
               /\ t \in DOMAIN rtbs /\ t = loc[p].rt
               /\ log[p][k].sn = net[p].Subnets[i].ID
               /\ rtbs[t].routes = SubSeq(loc[p].routes, 1, loc[p].ri - 1)
               /\ rtbs[t].assocCalls = 0 /\ rtbs[t].assoc = {}
               /\ \A j \in i..Len(net[p].Subnets) :
                     /\ net[p].Subnets[j].RouteTableID = input[p].Subnets[j].RouteTableID
                     /\ j > i => \A c \in DOMAIN log[p] :
                                     log[p][c].sn # net[p].Subnets[j].ID

\* CreateRoute failed for the first of two subnets without route table.
Wit_C10_FailFast ==
    /\ Failed(Main) /\ err[Main] = "CreateRoute"
    /\ loc[Main].idx < Len(net[Main].Subnets)
    /\ \E j \in DOMAIN net[Main].Subnets :
          /\ j > loc[Main].idx
          /\ net[Main].Subnets[j].ID \notin DOMAIN loc[Main].subnetRouteMap
    /\ rtbs[loc[Main].rt].routes = << >>

\* ------------------------------------------------------------------ C11
\* The reconciler's route tables that a failed CreateRoute left with fewer routes
\* than were asked for, created before the current pass of p in its VPC.
PartialBefore(p) ==
    {t \in DOMAIN rtbs :
        /\ rtbs[t].forSubnet # 0
        /\ Len(rtbs[t].routes) < Len(rtbs[t].asked)
        /\ rtbs[t].vpc = net[p].VPC.ID
        /\ \A c \in CreatedNow(p) : c[1] # t}

\* C11 as stated: a later pass sees the subnet of such a table as already
\* associated and skips it: it issues no CreateRouteTable and no CreateRoute call
\* for that subnet.
CEx_C11_LaterPassSkips ==
    \A p \in Procs : \A t \in PartialBefore(p) :
        \A k \in Calls(p, {"CreateRouteTable", "CreateRoute"}) :
            log[p][k].sn # rtbs[t].forSubnet

\* A table left with fewer routes than asked for has no association and has seen
\* no AssociateRouteTable call; a pass that succeeds in its VPC has created another
\* table for the subnet or found the subnet associated with another table.
C11_Unassociated ==
    /\ \A t \in DOMAIN rtbs :
          (rtbs[t].forSubnet # 0 /\ Len(rtbs[t].routes) < Len(rtbs[t].asked)) =>
              rtbs[t].assoc = {} /\ rtbs[t].assocCalls = 0
    /\ \A p \in Procs : \A t \in PartialBefore(p) :
          (Succeeded(p) /\ \E i \in DOMAIN net[p].Subnets :
                               net[p].Subnets[i].ID = rtbs[t].forSubnet) =>
              LET s == rtbs[t].forSubnet
              IN \/ \E c \in CreatedNow(p) : c[2] = s /\ c[1] # t
                 \/ s \in DOMAIN loc[p].subnetRouteMap /\ loc[p].subnetRouteMap[s] # t

\* In every step such a table stays in the provider just as it is.
C11_NoRepair ==
    \A t \in DOMAIN rtbs :
        (rtbs[t].forSubnet # 0 /\ Len(rtbs[t].routes) < Len(rtbs[t].asked)) =>
            t \in DOMAIN rtbs' /\ rtbs'[t] = rtbs[t]

\* C11, amended: a route table left with a subset of its routes by a failed
\* CreateRoute is neither deleted nor repaired, and it is never associated; a later
\* pass therefore does not find the subnet associated with it and, to succeed,
\* creates a new route table for that subnet.
Thm_C11_PartialTableAbandoned == [](C11_Unassociated) /\ [][C11_NoRepair]_vars

\* A later pass succeeded having created a second table for the subnet of a table
\* that an earlier pass left without its route.
Wit_C11_PartialTableAbandoned ==
    /\ Succeeded(Main)
    /\ \E t \in PartialBefore(Main) : \E c \in CreatedNow(Main) :
          /\ c[2] = rtbs[t].forSubnet
          /\ rtbs[c[1]].assoc = {c[2]}
          /\ rtbs[t].routes = << >>

\* ------------------------------------------------------------------ C12
CreatePath == <<"CreateVpc", "WaitUntilVpcAvailable", "CreateTags">>

\* The calls of the create path in the log of p, in the order issued.
CreatePathCalls(p) ==
    SelectSeq(log[p], LAMBDA e : e.op \in {CreatePath[i] : i \in DOMAIN CreatePath})

\* C12: on the create path the calls are CreateVpc, WaitUntilVpcAvailable, tagging,
\* in that order and each only after the one before succeeded on the same VPC; a
\* successful creation has exactly one tagging call and an adoption none; a failure
\* of CreateVpc, of the wait or of the tagging ends the pass with that error, with
\* no further call and with the desired VPC's id as it was.
Thm_C12_CreateWaitTag ==
    \A p \in Procs :
        LET cs == CreatePathCalls(p)
        IN /\ Len(cs) <= Len(CreatePath)
           /\ \A k \in DOMAIN cs :
                 /\ cs[k].op = CreatePath[k]
                 /\ k > 1 => cs[k - 1].ok /\ cs[k].id = cs[k - 1].id
                 /\ ~cs[k].ok =>
                       /\ k = Len(cs)
                       /\ log[p][Len(log[p])] = cs[k]
                       /\ Failed(p) /\ err[p] = cs[k].op
                       /\ steps[p] = <<"VPC">>
                       /\ net[p].VPC.ID = input[p].VPC.ID
           /\ (cs # << >>) => lookup[p].kind = "NotFound" /\ log[p][2] = cs[1]
           /\ (lookup[p].kind = "NotFound" /\ Len(steps[p]) > 1) =>
                 /\ Len(cs) = Len(CreatePath)
                 /\ Cardinality(Calls(p, {"CreateTags"})) = 1
                 /\ \E v \in vpcs : v.id = net[p].VPC.ID /\ v.owned /\ v.made
           /\ lookup[p].kind = "Found" => Calls(p, {"CreateTags"}) = {}

\* A pass created, awaited and tagged a VPC and went on, after an earlier pass had
\* failed and left the desired VPC without an id.
Wit_C12_CreateWaitTag ==
    /\ lookup[Main].kind = "NotFound" /\ Len(steps[Main]) > 1
    /\ Len(CreatePathCalls(Main)) = Len(CreatePath)
    /\ prev[Main].valid /\ ~prev[Main].ok
    /\ \E v \in vpcs : v.made /\ ~v.owned

\* ------------------------------------------------------------------ C13
\* The lookup of p's current pass found exactly one VPC.
Adopted(p) == lookup[p].ok /\ Cardinality(lookup[p].matches) = 1

\* The pass issues none of CreateVpc, WaitUntilVpcAvailable, tagging or a delete,
\* the VPC found is in the provider as it was found, and the desired VPC holds the
\* id and the address block observed.
C13_ReturnsObserved ==
    \A p \in Procs : Adopted(p) =>
        /\ lookup[p].kind = "Found"
        /\ Calls(p, {"CreateVpc", "WaitUntilVpcAvailable", "CreateTags"} \cup DeleteOps) = {}
        /\ lookup[p].matches \subseteq vpcs
        /\ \A v \in lookup[p].matches :
              net[p].VPC = [ID |-> v.id, CidrBlock |-> v.cidr]

\* No step of a pass that adopts a VPC changes the provider's VPCs.
C13_VpcsUnchanged ==
    \A p \in Procs : (Adopted(p)' /\ pass'[p] = pass[p]) => vpcs' = vpcs

\* C13: when the lookup finds exactly one VPC the reconciler adopts it: no CreateVpc,
\* wait, tagging or delete call, the provider's VPCs unchanged, and the observed id
\* and address block returned, also when the desired address block was another.
Thm_C13_Adoption == [](C13_ReturnsObserved) /\ [][C13_VpcsUnchanged]_vars

\* A pass adopted, by tag, a VPC whose address block is not the desired one, and
\* ended well.
Wit_C13_Adoption ==
    /\ Adopted(Main) /\ Succeeded(Main)
    /\ lookup[Main].id = 0
    /\ input[Main].VPC.CidrBlock = OtherCidr
    /\ net[Main].VPC.CidrBlock = FoundCidr

\* ------------------------------------------------------------------ C14
\* The route tables of p's VPC that were there when the current pass began.
TablesAtStart(p) ==
    {t \in describeVpcRouteTables(rtbs, net[p].VPC.ID) :
        \A c \in CreatedNow(p) : c[1] # t}

\* The subnets that were in the association list of one of them.
AssociatedAtStart(p) == UNION {rtbs[t].assoc : t \in TablesAtStart(p)}

\* The pass issues no route-table call for such a subnet.
C14_NoCalls ==
    \A p \in Procs : \A s \in AssociatedAtStart(p) :
        \A k \in Calls(p, {"CreateRouteTable", "CreateRoute", "AssociateRouteTable"}) :
            log[p][k].sn # s

\* No step changes a table that has an association, or removes it.
C14_TablesKept ==
    \A t \in DOMAIN rtbs :
        rtbs[t].assoc # {} => t \in DOMAIN rtbs' /\ rtbs'[t] = rtbs[t]

\* C14: for a subnet that is in the association list of a route table of the VPC
\* when the pass begins, the pass issues no CreateRouteTable, CreateRoute or
\* AssociateRouteTable call, and the table, its routes and its associations stay as
\* they are, whatever routes the table holds and whatever routeTableID the subnet
\* carries in memory.
Thm_C14_SkipAssociated == [](C14_NoCalls) /\ [][C14_TablesKept]_vars

\* A pass ended well having skipped a subnet whose table holds no route and whose
\* routeTableID was empty, while it created a table for another subnet.
Wit_C14_SkipAssociated ==
    /\ Succeeded(Main)
    /\ \E i \in DOMAIN net[Main].Subnets : \E t \in TablesAtStart(Main) :
          /\ net[Main].Subnets[i].ID \in rtbs[t].assoc
          /\ rtbs[t].routes = << >>
          /\ input[Main].Subnets[i].RouteTableID = 0
    /\ CreatedNow(Main) # {}

\* ------------------------------------------------------------------ C15
\* The first pass of p on a fresh cluster: the provider held no VPC and no route
\* table, the desired VPC has no id and no address block, and the subnets are one
\* public and one private.
FreshCluster(p) ==
    /\ ~prev[p].valid /\ pc[p] # "idle"
    /\ input[p].VPC = [ID |-> 0, CidrBlock |-> ""]
    /\ \A v \in vpcs : v.made
    /\ \A t \in DOMAIN rtbs : rtbs[t].forSubnet # 0
    /\ Len(input[p].Subnets) = Cardinality({TRUE, FALSE})
    /\ {input[p].Subnets[i].IsPublic : i \in DOMAIN input[p].Subnets} = {TRUE, FALSE}

\* C15: on a fresh cluster with one public and one private subnet a successful pass
\* issues exactly one CreateVpc, with 10.0.0.0/16, and exactly one CreateRouteTable
\* per subnet; each of the two tables holds one route and one association, and each
\* subnet ends with a non-empty routeTableID naming the table associated with it.
Thm_C15_FreshCluster ==
    \A p \in Procs : (FreshCluster(p) /\ Succeeded(p)) =>
        LET sns == net[p].Subnets
        IN /\ Cardinality(Calls(p, {"CreateVpc"})) = 1
           /\ vpcs = {[id |-> net[p].VPC.ID, cidr |-> defaultVpcCidr,
                       owned |-> TRUE, made |-> TRUE]}
           /\ net[p].VPC.CidrBlock = defaultVpcCidr
           /\ \A i \in DOMAIN sns :
                 /\ Cardinality({k \in Calls(p, {"CreateRouteTable"}) :
                                    log[p][k].sn = sns[i].ID}) = 1
                 /\ sns[i].RouteTableID \in DOMAIN rtbs
                 /\ rtbs[sns[i].RouteTableID].assoc = {sns[i].ID}
                 /\ rtbs[sns[i].RouteTableID].vpc = net[p].VPC.ID
                 /\ Len(rtbs[sns[i].RouteTableID].routes) = 1
           /\ Len(rtbs) = Len(sns)
           /\ Cardinality(Calls(p, {"CreateRouteTable"})) = Len(sns)
           /\ Cardinality(Calls(p, {"CreateRoute"})) = Len(sns)
           /\ Cardinality(Calls(p, {"AssociateRouteTable"})) = Len(sns)

\* The first pass on a fresh cluster ended well, with both subnets' tables in place.
Wit_C15_FreshCluster ==
    /\ FreshCluster(Main) /\ Succeeded(Main)
    /\ net[Main].VPC.ID # 0
    /\ \A i \in DOMAIN net[Main].Subnets : net[Main].Subnets[i].RouteTableID # 0

\* ------------------------------------------------------------------ C16
RouteTableOps == {"CreateRouteTable", "CreateRoute", "AssociateRouteTable"}

\* The route-table step of p has read the VPC's tables and the network carries no
\* internet gateway id.
NoGateway(p) ==
    /\ \E k \in Calls(p, {"DescribeRouteTables"}) : log[p][k].ok
    /\ net[p].InternetGatewayID = 0

\* The public subnets that the map of associations does not hold.
PublicUnmapped(p) ==
    {j \in DOMAIN net[p].Subnets :
        /\ net[p].Subnets[j].IsPublic
        /\ net[p].Subnets[j].ID \notin DOMAIN loc[p].subnetRouteMap}

\* C16: when the internet gateway id is absent and the loop has a public subnet
\* without a table before it, the pass fails; it issues no CreateRouteTable,
\* CreateRoute or AssociateRouteTable call for that subnet or for a later one and
\* writes no routeTableID for them; if it comes as far as that subnet it fails
\* there, and the tables it created for earlier subnets stay, routed and associated.
Thm_C16_MissingGateway ==
    \A p \in Procs : (NoGateway(p) /\ PublicUnmapped(p) # {}) =>
        LET sns == net[p].Subnets
            j == Min(PublicUnmapped(p))
        IN /\ \A k \in Calls(p, RouteTableOps) :
                 \E i \in 1..(j - 1) : log[p][k].sn = sns[i].ID
           /\ \A i \in j..Len(sns) : sns[i].RouteTableID = input[p].Subnets[i].RouteTableID
           /\ pc[p] = "done" =>
                 /\ err[p] \in {"IgwNil", "NoNat"} \cup RouteTableOps
                 /\ (err[p] # "NoNat" /\ \A k \in DOMAIN log[p] : log[p][k].ok) =>
                       err[p] = "IgwNil"
           /\ err[p] = "IgwNil" =>
                 /\ pc[p] = "done" /\ loc[p].idx = j
                 /\ \A c \in CreatedNow(p) :
                       /\ c[1] \in DOMAIN rtbs
                       /\ rtbs[c[1]].assoc = {c[2]}
                       /\ rtbs[c[1]].routes = rtbs[c[1]].asked
                       /\ \E i \in 1..(j - 1) :
                             sns[i].ID = c[2] /\ sns[i].RouteTableID = c[1]

\* A pass failed at a public subnet for want of the internet gateway id, after it
\* had created the table of an earlier subnet.
Wit_C16_MissingGateway ==
    /\ NoGateway(Main) /\ err[Main] = "IgwNil"
    /\ CreatedNow(Main) # {}
    /\ PublicUnmapped(Main) # {}

\* ------------------------------------------------------------------ C17
\* The VPCs that carry the cluster's ownership tag.
Owned == {v \in vpcs : v.owned}

\* The cluster owns more than one VPC.
Duplicated == \E v, w \in Owned : v.id # w.id

\* In this step p has made its VPC lookup, by tag.
TagLookup(p) ==
    /\ lookup'[p] # lookup[p]
    /\ lookup'[p].kind # "none"
    /\ lookup'[p].id = 0

\* A pass that saw NotFound creates, whatever the other passes have done; a pass
\* refused for a conflict has issued no call but its lookup.
C17_BothCreate ==
    \A p \in Procs :
        /\ lookup[p].kind = "NotFound" =>
              pc[p] = "vpc_create" \/ Calls(p, {"CreateVpc"}) # {}
        /\ err[p] = "Conflict" =>
              /\ Failed(p)
              /\ Calls(p, CreationOps \cup {"WaitUntilVpcAvailable"}) = {}
              /\ net[p].VPC = input[p].VPC

\* A tag lookup made while no VPC carries the tag sees NotFound and leads to
\* CreateVpc; one made while two carry it ends the pass, with Conflict when the
\* call succeeds, and changes nothing; tagged VPCs stay tagged.
C17_Lookups ==
    /\ Owned \subseteq Owned'
    /\ \A p \in Procs : TagLookup(p) =>
          /\ (Owned = {} /\ lookup'[p].ok) =>
                lookup'[p].kind = "NotFound" /\ pc'[p] = "vpc_create"
          /\ Duplicated =>
                /\ pc'[p] = "done"
                /\ err'[p] = (IF lookup'[p].ok THEN "Conflict" ELSE "Error")
                /\ vpcs' = vpcs /\ rtbs' = rtbs
                /\ net'[p].VPC = net[p].VPC

\* C17: two passes that both look the VPC up before either has created and tagged
\* one both see NotFound and both create, so the cluster comes to own two VPCs;
\* from then on every lookup by tag returns Conflict and every pass without an
\* explicit id fails, creating nothing.
Thm_C17_RaceDuplicates == [](C17_BothCreate) /\ [][C17_Lookups]_vars

\* Both callers saw NotFound and created and tagged a VPC each; a later pass of
\* the first, without an explicit id, failed with Conflict.
Wit_C17_RaceDuplicates ==
    /\ Duplicated
    /\ \A v \in Owned : v.made
    /\ \A p \in Procs \ {Main} : lookup[p].kind = "NotFound" /\ lookup[p].id = 0
    /\ prev[Main].valid /\ prev[Main].ok
    /\ lookup[Main].id = 0 /\ err[Main] = "Conflict"

\* ------------------------------------------------------------------ C18
\* The subnets whose routeTableID the current pass of p has written.
Written(p) ==
    {i \in DOMAIN net[p].Subnets :
        net[p].Subnets[i].RouteTableID # input[p].Subnets[i].RouteTableID}

\* Each routeTableID written names a table that a successful AssociateRouteTable
\* call of the pass bound to that subnet and that the provider holds associated
\* with it; a pass that failed in the loop has written none for the subnet it
\* failed at or for a later one, and a pass that failed before the loop none at all.
C18_NamesAssociated ==
    \A p \in Procs :
        /\ \A i \in Written(p) :
              LET sn == net[p].Subnets[i]
              IN /\ \E k \in Calls(p, {"AssociateRouteTable"}) :
                       log[p][k] = Call("AssociateRouteTable", TRUE, sn.ID, sn.RouteTableID)
                 /\ sn.RouteTableID \in DOMAIN rtbs
                 /\ sn.ID \in rtbs[sn.RouteTableID].assoc
        /\ Failed(p) =>
              Written(p) \subseteq
                  (IF err[p] \in {"IgwNil", "NoNat"} \cup RouteTableOps
                   THEN 1..(loc[p].idx - 1) ELSE {})

\* A routeTableID is written only in the step whose AssociateRouteTable call for
\* that subnet and that table succeeds.
C18_WrittenOnAssociate ==
    \A p \in Procs : \A i \in DOMAIN net[p].Subnets :
        (pass'[p] = pass[p] /\
         net'[p].Subnets[i].RouteTableID # net[p].Subnets[i].RouteTableID) =>
            /\ log'[p] = Append(log[p],
                   Call("AssociateRouteTable", TRUE, net[p].Subnets[i].ID,
                        net'[p].Subnets[i].RouteTableID))
            /\ net[p].Subnets[i].ID \in rtbs'[net'[p].Subnets[i].RouteTableID].assoc

\* C18: a subnet's in-memory routeTableID is written only after AssociateRouteTable
\* succeeded for that subnet and table; at every point each routeTableID the pass
\* has written names a table the provider has associated with that subnet; none is
\* written for the subnet at which the pass fails or for a later one.
Thm_C18_WrittenAfterAssociate ==
    [](C18_NamesAssociated) /\ [][C18_WrittenOnAssociate]_vars

\* A pass wrote the routeTableID of its first subnet and failed at the second,
\* after the table of the second had been created.
Wit_C18_WrittenAfterAssociate ==
    /\ Failed(Main) /\ err[Main] \in RouteTableOps \ {"CreateRouteTable"}
    /\ Written(Main) # {}
    /\ \A i \in Written(Main) : i < loc[Main].idx
    /\ \E c \in CreatedNow(Main) : c[2] = net[Main].Subnets[loc[Main].idx].ID

\* ------------------------------------------------------------------ C19
\* Table t is the one a pass is at work on: created, not yet routed and associated.
InFlight(t) == \E p \in Procs : pc[p] \in {"rt_route", "rt_assoc"} /\ loc[p].rt = t

\* The reconciler's tables without an association that no pass is at work on.
Orphans ==
    {t \in DOMAIN rtbs : rtbs[t].forSubnet # 0 /\ rtbs[t].assoc = {} /\ ~InFlight(t)}

\* The table of the CreateRoute or AssociateRouteTable call that fails in this step.
FailedTables ==
    {t \in DOMAIN rtbs :
        \E p \in Procs, op \in {"CreateRoute", "AssociateRouteTable"} :
            log'[p] = Append(log[p], Call(op, FALSE, rtbs[t].forSubnet, t))}

\* No step associates, changes or removes an orphan; the orphans grow exactly by
\* the table of a failing CreateRoute or AssociateRouteTable call, one at a time.
C19_OrphansGrow ==
    /\ \A t \in Orphans : t \in DOMAIN rtbs' /\ rtbs'[t] = rtbs[t]
    /\ Orphans' = Orphans \cup FailedTables
    /\ FailedTables \cap Orphans = {}
    /\ Cardinality(Orphans') = Cardinality(Orphans) + Cardinality(FailedTables)
    /\ Cardinality(FailedTables) <= 1

\* A pass works on no orphan it found: every route-table call it issues names a
\* table of its own making; a pass that ends well with the subnet of an orphan
\* among its subnets, still unassociated when it began, has created a new table
\* for that subnet.
C19_FreshTable ==
    \A p \in Procs :
        /\ \A k \in Calls(p, RouteTableOps) :
              log[p][k].ok => \E c \in CreatedNow(p) : c = <<log[p][k].id, log[p][k].sn>>
        /\ Succeeded(p) =>
              \A t \in Orphans :
                  LET s == rtbs[t].forSubnet
                  IN (/\ rtbs[t].vpc = net[p].VPC.ID
                      /\ \E i \in DOMAIN net[p].Subnets : net[p].Subnets[i].ID = s
                      /\ s \notin DOMAIN loc[p].subnetRouteMap) =>
                         \E c \in CreatedNow(p) :
                             c[2] = s /\ c[1] > t /\ rtbs[c[1]].assoc = {s}

\* C19: a route table created by a pass that then fails at CreateRoute or at
\* AssociateRouteTable is never associated, reused or deleted by a later pass; the
\* next pass that comes to the still unassociated subnet creates a new table; the
\* number of unassociated tables the reconciler has created never falls and grows
\* by one with each such failure.
Thm_C19_OrphansAccumulate == [](C19_FreshTable) /\ [][C19_OrphansGrow]_vars

\* Two passes failed for the same subnet of the same VPC, one at CreateRoute and
\* one at AssociateRouteTable, and left a table each.
Wit_C19_OrphansAccumulate ==
    /\ Failed(Main)
    /\ \E t, u \in Orphans :
          /\ t < u
          /\ rtbs[t].forSubnet = rtbs[u].forSubnet /\ rtbs[t].vpc = rtbs[u].vpc
          /\ Len(rtbs[t].routes) < Len(rtbs[t].asked)
          /\ rtbs[u].routes = rtbs[u].asked /\ rtbs[u].assocCalls > 0

\* ------------------------------------------------------------------ C20
\* The lookup of p's current pass was by an explicit id and matched nothing.
ExplicitMissing(p) == lookup[p].id # 0 /\ lookup[p].ok /\ lookup[p].matches = {}

\* C20: when the desired VPC carries an explicit id that matches no VPC, reconcileVPC
\* does not fail on the lookup: it takes the create path, with no query by tag, and
\* on success the desired id is overwritten with the id of the VPC created, which is
\* not the id supplied.
Thm_C20_ExplicitIdMissing ==
    \A p \in Procs : ExplicitMissing(p) =>
        /\ lookup[p].kind = "NotFound"
        /\ input[p].VPC.ID = lookup[p].id
        /\ \A k \in Calls(p, {"DescribeVpcs"}) : log[p][k].id = lookup[p].id
        /\ Cardinality(Calls(p, {"DescribeVpcs"})) = 1
        /\ pc[p] = "vpc_create" \/ Calls(p, {"CreateVpc"}) # {}
        /\ Failed(p) /\ err[p] \in VpcErrors =>
              /\ err[p] = log[p][Len(log[p])].op
              /\ err[p] \in {CreatePath[i] : i \in DOMAIN CreatePath}
        /\ Len(steps[p]) > 1 =>
              /\ net[p].VPC.ID # input[p].VPC.ID
              /\ \E k \in Calls(p, {"CreateVpc"}) :
                    log[p][k].ok /\ log[p][k].id = net[p].VPC.ID
              /\ \E v \in vpcs : v.id = net[p].VPC.ID /\ v.made /\ v.owned

\* A pass given an id that names no VPC created one and went on, although the
\* cluster already owned a VPC that a query by tag would have found.
Wit_C20_ExplicitIdMissing ==
    /\ ExplicitMissing(Main) /\ Succeeded(Main)
    /\ \E v \in vpcs : v.owned /\ v.id # net[Main].VPC.ID
    /\ net[Main].VPC.ID # input[Main].VPC.ID

====
